---- MODULE Spec2Model ----
(***************************************************************************)
(* Model of the Streamlit RAG chat application: streamlit_app.py (the UI   *)
(* script, its per-session st.session_state and the streaming turn) and    *)
(* rag_agent.py (the RAGDeps bundle and the retrieve tool).                *)
(*                                                                         *)
(* Every browser session re-executes the script main() on each widget      *)
(* event.  A script run either resets the session (new agent_deps, empty   *)
(* history, st.rerun), ends at the chat input, or runs one turn: the agent *)
(* reasons, may call the retrieve tool, streams text deltas, the new       *)
(* messages are appended to the history and the sources are displayed.     *)
(***************************************************************************)
EXTENDS Integers, Sequences, FiniteSets

\* ------------------------------------------------------------------ bounds
\* Prompts submitted by all users together.
MaxTurns == 2
\* Widget changes (collection, result count, temperature) by all users together.
MaxSelects == 2
\* Tool calls the language model requests, all turns together.
MaxToolCalls == 2
\* The largest --n-results given on the command line.
MaxCliNResults == 8

\* ------------------------------------------------------- program constants
\* st.number_input(min_value=1, ..., value=5)
MinNResults == 1
DefaultNResults == 5
\* st.slider(min_value=0.0, ..., value=0.7), in hundredths
MinTemperature == 0
DefaultTemperature == 70

Sessions == {"s1", "s2"}

\* ---------------------------------------------------------------- inputs
\* available_collections: the names chroma_client.list_collections() returns.
available_collections == <<"docs", "kb">>
Collections == {available_collections[i] : i \in 1..Len(available_collections)}
NResultsChoices == {MinNResults, DefaultNResults}
Temperatures == {MinTemperature, DefaultTemperature}
\* Texts a user types and search queries the language model writes.
Texts == {"q1", "q2"}
\* n_results values a (possibly prompt-injected) model puts in its tool-call
\* arguments; 0 stands for "argument absent".
InjectedNResults == {0, 2}
\* The answers of the language model, each a sequence of text deltas.
Answers == { << <<"x">>, <<"y">> >>, << <<"y">> >> }

\* The persisted store: per collection, the chunks in insertion order.  A
\* chunk has an id, a metadata dict (a set of <<key, value>> pairs) and its
\* embedding distance to every query text.
Chunk(id, meta, d1, d2) ==
    [id |-> id, meta |-> meta, dist |-> [q \in Texts |-> IF q = "q1" THEN d1 ELSE d2]]

Store ==
    [c \in Collections |->
        IF c = "docs"
        THEN << Chunk("d1", {<<"source", "u1">>}, 1, 3),
                Chunk("d2", {<<"source", "u2">>}, 2, 1),
                Chunk("d3", {<<"source", "u1">>}, 3, 2) >>
        ELSE << Chunk("k1", {<<"source", "">>}, 1, 2),
                Chunk("k2", {<<"title", "t">>}, 2, 3),
                Chunk("k3", {<<"source", "u3">>}, 3, 1) >>]

\* ---------------------------------------------------------- pure functions
\* dict.get(key): the value, or "" (None) when the key is absent.
MetaGet(meta, key) ==
    IF \E p \in meta : p[1] = key
    THEN (CHOOSE p \in meta : p[1] = key)[2]
    ELSE ""

\* The chunks of a collection ranked ascending by distance to the query,
\* equal distances in insertion order.
RECURSIVE Ranked(_, _)
Ranked(chunks, q) ==
    IF chunks = <<>> THEN <<>>
    ELSE LET best == CHOOSE i \in 1..Len(chunks) :
                        \A j \in 1..Len(chunks) :
                            \/ chunks[i].dist[q] < chunks[j].dist[q]
                            \/ chunks[i].dist[q] = chunks[j].dist[q] /\ i <= j
             rest == [j \in 1..(Len(chunks) - 1) |->
                        IF j < best THEN chunks[j] ELSE chunks[j + 1]]
         IN  <<chunks[best]>> \o Ranked(rest, q)

\* query_collection(collection, query_text, n_results): the top-k result set.
QueryCollection(collection_name, query_text, k) ==
    LET ranked == Ranked(Store[collection_name], query_text)
        n == IF k < Len(ranked) THEN k ELSE Len(ranked)
    IN  SubSeq(ranked, 1, n)

\* format_results_as_context(query_results): per result an optional
\* provenance header followed by the document body.
RECURSIVE FormatResultsAsContext(_)
FormatResultsAsContext(results) ==
    IF results = <<>> THEN <<>>
    ELSE LET r == Head(results)
             src == MetaGet(r.meta, "source")
         IN  (IF src # "" THEN <<"Source:", src>> ELSE <<>>)
             \o <<r.id>> \o FormatResultsAsContext(Tail(results))

\* The set comprehension of the display-sources block: the distinct "source"
\* values of the metadatas that are truthy.
SourceUrls(results) ==
    {MetaGet(results[i].meta, "source") :
        i \in {j \in 1..Len(results) :
                /\ results[j].meta # {}
                /\ MetaGet(results[j].meta, "source") # ""}}

\* RAGDeps(chroma_client, collection_name, embedding_model, n_results)
RAGDeps(client, collection_name, embedding_model, n_results) ==
    [chroma_client |-> client, collection_name |-> collection_name,
     embedding_model |-> embedding_model, n_results |-> n_results]

\* st.session_state holds no "agent_deps" yet: getattr(None, ..., None).
NoDeps == RAGDeps("None", "None", "None", 0)

\* A get_agent_deps that stores the default result count, not its argument.
GetAgentDepsDefaultN(collection_name_to_use, n_results_to_use) ==
    RAGDeps("./chroma_db", collection_name_to_use, "all-MiniLM-L6-v2", DefaultNResults)

\* get_agent_deps(collection_name_to_use, n_results_to_use)
GetAgentDeps(collection_name_to_use, n_results_to_use) ==
    RAGDeps("./chroma_db", collection_name_to_use, "all-MiniLM-L6-v2", n_results_to_use)

\* Message parts and messages of pydantic_ai.messages.
Part(part_kind, content) == [part_kind |-> part_kind, content |-> content]
ModelRequest(parts) == [kind |-> "request", parts |-> parts]
ModelResponse(parts) == [kind |-> "response", parts |-> parts]


\* ------------------------------------------------------------------- state
VARIABLES
    widgets,        \* per session: the values of selectbox, number_input, slider
    keys,           \* per session: the keys present in st.session_state
    messages,       \* per session: st.session_state.messages
    agent_deps,     \* per session: st.session_state.agent_deps
    pc,             \* per session: where its script run stands
    trigger,        \* per session: the event that started the current script run
    user_input,     \* per session: st.chat_input's value in this run ("" = None)
    run,            \* per session: the agent run of agent.run_stream
    full_response,  \* per session: the text the consumer loop has assembled
    last_retrieval, \* per session: the latest query the retrieve tool ran this turn
    display,        \* per session: what the end of the script run put on screen
    turns,          \* prompts submitted so far
    selects,        \* widget changes so far
    tool_calls,     \* tool calls requested so far
    cli             \* the command-line program of rag_agent.py

\* The state of the Streamlit sessions.
session_vars == <<widgets, keys, messages, agent_deps, pc, trigger, user_input,
                  run, full_response, last_retrieval, display, turns, selects,
                  tool_calls>>

vars == <<session_vars, cli>>

\* The command-line program before main() has parsed its arguments.
NoCli ==
    [pc |-> "shell",
     args |-> [question |-> "", collection_name |-> "", db_directory |-> "",
               embedding_model |-> "", n_results |-> 0],
     deps |-> NoDeps]

\* No agent run: the state of `run` outside a turn.
NoRun ==
    [active |-> FALSE, deps |-> NoDeps, message_history |-> <<>>,
     temperature |-> DefaultTemperature, log |-> <<>>,
     tool_call |-> [search_query |-> "", n_results |-> 0],
     iterations |-> 0, answer |-> <<>>, pending |-> <<>>, text |-> <<>>]

NoRetrieval == [ran |-> FALSE, query_text |-> "", k |-> 0, results |-> <<>>]

\* Nothing shown below the answer yet.
NoDisplay == [status |-> "none", source_urls |-> {}]

TurnStates == {"reasoning", "tool", "streaming", "sources"}

Init ==
    /\ widgets = [s \in Sessions |->
                    [collection |-> available_collections[1],
                     n_results |-> DefaultNResults,
                     temperature |-> DefaultTemperature]]
    /\ keys = [s \in Sessions |-> {}]
    /\ messages = [s \in Sessions |-> <<>>]
    /\ agent_deps = [s \in Sessions |-> NoDeps]
    /\ pc = [s \in Sessions |-> "script"]
    /\ trigger = [s \in Sessions |-> "load"]
    /\ user_input = [s \in Sessions |-> ""]
    /\ run = [s \in Sessions |-> NoRun]
    /\ full_response = [s \in Sessions |-> <<>>]
    /\ last_retrieval = [s \in Sessions |-> NoRetrieval]
    /\ display = [s \in Sessions |-> NoDisplay]
    /\ turns = 0
    /\ selects = 0
    /\ tool_calls = 0
    /\ cli = NoCli

\* ------------------------------------------------------ helpers of actions
\* A reset branch that compares the collection name only.
NeedsResetCollectionOnly(s) ==
    \/ "agent_deps" \notin keys[s]
    \/ agent_deps[s].collection_name # widgets[s].collection

\* The condition of the reset branch of main().
NeedsReset(s) ==
    \/ "agent_deps" \notin keys[s]
    \/ agent_deps[s].collection_name # widgets[s].collection
    \/ agent_deps[s].n_results # widgets[s].n_results

\* One message list shared by all sessions (a module-level list).
SetMessagesShared(s, value) == [t \in Sessions |-> value]

\* st.session_state.messages = value, in the session of the script run.
SetMessages(s, value) == [messages EXCEPT ![s] = value]

\* An update of the installed bundle field by field that stops after the
\* collection name.
SetAgentDepsCollectionOnly(s, value) ==
    [agent_deps EXCEPT ![s].collection_name = value.collection_name]

\* st.session_state.agent_deps = value, in the session of the script run.
SetAgentDeps(s, value) == [agent_deps EXCEPT ![s] = value]

\* A retrieve tool that takes n_results from the tool-call arguments when
\* the model supplies it.
RetrieveKFromArgs(r) ==
    IF r.tool_call.n_results # 0 THEN r.tool_call.n_results ELSE r.deps.n_results

\* A retrieve tool whose result count follows the sampling temperature.
RetrieveKByTemperature(r) ==
    IF r.temperature = MinTemperature THEN MinNResults ELSE r.deps.n_results

\* The result count the retrieve tool passes to query_collection, r the
\* agent run (its deps, the tool-call arguments, the temperature).
RetrieveK(r) == r.deps.n_results

\* A consumer loop that puts the new delta in front.
ConsumePrepend(response, message) == message \o response

\* full_response += message
Consume(response, message) == response \o message

\* result.new_messages(): the messages of this run in the order they
\* occurred, the streamed response last.
NewMessages(r) == r.log \o <<ModelResponse(<<Part("text", r.text)>>)>>

\* An extend that runs twice (the commit repeated).
ExtendTwice(list, new) == list \o new \o new

\* list.extend
Extend(list, new) == list \o new

\* A display-sources block that shows the results the tool retrieved.
DisplayQueryOfTool(s) ==
    IF last_retrieval[s].ran THEN last_retrieval[s].results ELSE <<>>

\* The query the display-sources block re-runs.
DisplayQuery(s) ==
    QueryCollection(agent_deps[s].collection_name, user_input[s],
                    widgets[s].n_results)

\* The first request of a run: the system prompt only when the history is
\* empty, then the user prompt.
FirstRequest(history, prompt) ==
    ModelRequest((IF history = <<>> THEN <<Part("system-prompt", <<>>)>> ELSE <<>>)
                 \o <<Part("user-prompt", <<prompt>>)>>)

\* A new script run starts with an empty page.
ClearedTurn(s) ==
    /\ run' = [run EXCEPT ![s] = NoRun]
    /\ full_response' = [full_response EXCEPT ![s] = <<>>]
    /\ last_retrieval' = [last_retrieval EXCEPT ![s] = NoRetrieval]
    /\ display' = [display EXCEPT ![s] = NoDisplay]


\* ---------------------------------------------------------------- UI events
\* A widget event is delivered when no script run of the session is active
\* (a running one is stopped first, see Cancel) and starts a new script run.
StartScript(s, event, input) ==
    /\ pc' = [pc EXCEPT ![s] = "script"]
    /\ trigger' = [trigger EXCEPT ![s] = event]
    /\ user_input' = [user_input EXCEPT ![s] = input]
    /\ ClearedTurn(s)
    /\ UNCHANGED <<cli, keys, messages, agent_deps, tool_calls>>

\* st.selectbox("Select Knowledge Base:", options=available_collections)
SelectCollection(s, c) ==
    /\ pc[s] = "idle"
    /\ selects < MaxSelects
    /\ c # widgets[s].collection
    /\ widgets' = [widgets EXCEPT ![s].collection = c]
    /\ selects' = selects + 1
    /\ StartScript(s, "collection", "")
    /\ UNCHANGED turns

\* st.number_input("Number of Chunks to Retrieve:", ...)
SelectNResults(s, n) ==
    /\ pc[s] = "idle"
    /\ selects < MaxSelects
    /\ n # widgets[s].n_results
    /\ widgets' = [widgets EXCEPT ![s].n_results = n]
    /\ selects' = selects + 1
    /\ StartScript(s, "n_results", "")
    /\ UNCHANGED turns

\* st.slider("LLM Temperature:", ...)
SelectTemperature(s, t) ==
    /\ pc[s] = "idle"
    /\ selects < MaxSelects
    /\ t # widgets[s].temperature
    /\ widgets' = [widgets EXCEPT ![s].temperature = t]
    /\ selects' = selects + 1
    /\ StartScript(s, "temperature", "")
    /\ UNCHANGED turns

\* st.chat_input("What do you want to know?") submitted with text q.
SubmitInput(s, q) ==
    /\ pc[s] = "idle"
    /\ turns < MaxTurns
    /\ turns' = turns + 1
    /\ StartScript(s, "input", q)
    /\ UNCHANGED <<widgets, selects>>

\* --------------------------------------------------------- the script main()
\* "messages" is created when absent, before the reset check.
WithMessagesKey(s) == keys[s] \cup {"messages"}

\* The reset branch: new agent_deps installed, history cleared, st.rerun().
\* The rerun re-executes the script with the same widget values; the chat
\* input, a trigger value, is gone.
ResetAndRerun(s) ==
    /\ pc[s] = "script"
    /\ NeedsReset(s)
    /\ keys' = [keys EXCEPT ![s] = WithMessagesKey(s) \cup {"agent_deps"}]
    /\ agent_deps' = SetAgentDeps(s, GetAgentDeps(widgets[s].collection,
                                                  widgets[s].n_results))
    /\ messages' = SetMessages(s, <<>>)
    /\ trigger' = [trigger EXCEPT ![s] = "rerun"]
    /\ user_input' = [user_input EXCEPT ![s] = ""]
    /\ UNCHANGED <<cli, widgets, pc, run, full_response, last_retrieval, display,
                   turns, selects, tool_calls>>

\* No reset and no chat input: the history is displayed and the run ends.
RunToChatInput(s) ==
    /\ pc[s] = "script"
    /\ ~NeedsReset(s)
    /\ user_input[s] = ""
    /\ keys' = [keys EXCEPT ![s] = WithMessagesKey(s)]
    /\ pc' = [pc EXCEPT ![s] = "idle"]
    /\ UNCHANGED <<cli, widgets, messages, agent_deps, trigger, user_input, run,
                   full_response, last_retrieval, display, turns, selects,
                   tool_calls>>

\* No reset and a chat input: run_agent_with_streaming is called and
\* agent.run_stream starts with the session's agent_deps and history.
StartTurn(s) ==
    /\ pc[s] = "script"
    /\ ~NeedsReset(s)
    /\ user_input[s] # ""
    /\ keys' = [keys EXCEPT ![s] = WithMessagesKey(s)]
    /\ run' = [run EXCEPT ![s] =
                [NoRun EXCEPT !.active = TRUE,
                              !.deps = agent_deps[s],
                              !.message_history = messages[s],
                              !.temperature = widgets[s].temperature,
                              !.log = <<FirstRequest(messages[s], user_input[s])>>]]
    /\ full_response' = [full_response EXCEPT ![s] = <<>>]
    /\ pc' = [pc EXCEPT ![s] = "reasoning"]
    /\ UNCHANGED <<cli, widgets, messages, agent_deps, trigger, user_input,
                   last_retrieval, display, turns, selects, tool_calls>>

\* ------------------------------------------------------------ the agent run
\* The language model answers a request with a call of the retrieve tool,
\* with arguments of its choice.  Nothing in Agent(...) or run_stream(...)
\* limits how often it does.  The tool-call part of the history is
\* represented by the one argument the tool's signature accepts.
RequestTool(s, q, n) ==
    /\ pc[s] = "reasoning"
    /\ tool_calls < MaxToolCalls
    /\ tool_calls' = tool_calls + 1
    /\ run' = [run EXCEPT ![s].tool_call = [search_query |-> q, n_results |-> n],
                          ![s].log = @ \o <<ModelResponse(<<Part("tool-call", <<q>>)>>)>>]
    /\ pc' = [pc EXCEPT ![s] = "tool"]
    /\ UNCHANGED <<cli, widgets, keys, messages, agent_deps, trigger, user_input,
                   full_response, last_retrieval, display, turns, selects>>

\* The retrieve tool: query_collection with the search query of the model
\* and the n_results of the run's deps, formatted as the tool return.
Retrieve(s) ==
    /\ pc[s] = "tool"
    /\ LET deps == run[s].deps
           q == run[s].tool_call.search_query
           k == RetrieveK(run[s])
           results == QueryCollection(deps.collection_name, q, k)
       IN  /\ last_retrieval' = [last_retrieval EXCEPT ![s] =
                [ran |-> TRUE, query_text |-> q, k |-> k, results |-> results]]
           /\ run' = [run EXCEPT
                ![s].iterations = @ + 1,
                ![s].log = @ \o <<ModelRequest(<<Part("tool-return",
                                        FormatResultsAsContext(results))>>)>>]
    /\ pc' = [pc EXCEPT ![s] = "reasoning"]
    /\ UNCHANGED <<cli, widgets, keys, messages, agent_deps, trigger, user_input,
                   full_response, display, turns, selects, tool_calls>>

\* An exception leaves main(): nothing catches it around the generator, the
\* script run ends with the exception shown and the run's objects are gone;
\* the text streamed so far stays on the page.
ScriptException(s, cause) ==
    /\ pc' = [pc EXCEPT ![s] = "idle"]
    /\ run' = [run EXCEPT ![s] = NoRun]
    /\ last_retrieval' = [last_retrieval EXCEPT ![s] = NoRetrieval]
    /\ display' = [display EXCEPT ![s] = [status |-> cause, source_urls |-> {}]]
    /\ UNCHANGED <<cli, widgets, keys, messages, agent_deps, trigger, user_input,
                   full_response, turns, selects, tool_calls>>

\* The embedding or the search of the tool's query fails.
RetrieveFails(s) ==
    /\ pc[s] = "tool"
    /\ ScriptException(s, "RetrievalFailure")

\* The language model starts its final answer, a stream of text deltas.
BeginResponse(s, answer) ==
    /\ pc[s] = "reasoning"
    /\ run' = [run EXCEPT ![s].answer = answer, ![s].pending = answer]
    /\ pc' = [pc EXCEPT ![s] = "streaming"]
    /\ UNCHANGED <<cli, widgets, keys, messages, agent_deps, trigger, user_input,
                   full_response, last_retrieval, display, turns, selects,
                   tool_calls>>

\* One delta: result.stream_text(delta=True) yields it, the generator yields
\* it on, the consumer loop appends it to full_response.
StreamDelta(s) ==
    /\ pc[s] = "streaming"
    /\ run[s].pending # <<>>
    /\ run' = [run EXCEPT ![s].pending = Tail(@),
                          ![s].text = @ \o Head(run[s].pending)]
    /\ full_response' = [full_response EXCEPT
                            ![s] = Consume(@, Head(run[s].pending))]
    /\ UNCHANGED <<cli, widgets, keys, messages, agent_deps, pc, trigger, user_input,
                   last_retrieval, display, turns, selects, tool_calls>>

\* The language model is unreachable or errors, before the first delta or
\* between two deltas.
LLMError(s) ==
    /\ pc[s] \in {"reasoning", "streaming"}
    /\ ScriptException(s, "AgentUnavailable")

\* The stream is exhausted: the new messages are appended to the history.
Commit(s) ==
    /\ pc[s] = "streaming"
    /\ run[s].pending = <<>>
    /\ messages' = SetMessages(s, Extend(messages[s], NewMessages(run[s])))
    /\ pc' = [pc EXCEPT ![s] = "sources"]
    /\ UNCHANGED <<cli, widgets, keys, agent_deps, trigger, user_input, run,
                   full_response, last_retrieval, display, turns, selects,
                   tool_calls>>

\* The display-sources block: the query is run again and the distinct
\* sources of its results are shown.
DisplaySources(s) ==
    /\ pc[s] = "sources"
    /\ display' = [display EXCEPT ![s] =
            [status |-> "sources", source_urls |-> SourceUrls(DisplayQuery(s))]]
    /\ pc' = [pc EXCEPT ![s] = "idle"]
    /\ UNCHANGED <<cli, widgets, keys, messages, agent_deps, trigger, user_input, run,
                   full_response, last_retrieval, turns, selects, tool_calls>>

\* The query of the display-sources block fails: except Exception, st.error.
DisplaySourcesFails(s) ==
    /\ pc[s] = "sources"
    /\ display' = [display EXCEPT ![s] =
            [status |-> "sources-error", source_urls |-> {}]]
    /\ pc' = [pc EXCEPT ![s] = "idle"]
    /\ UNCHANGED <<cli, widgets, keys, messages, agent_deps, trigger, user_input, run,
                   full_response, last_retrieval, turns, selects, tool_calls>>

\* A generator that commits what it has gathered so far when it is closed
\* (the extend in a finally block).
CancelCommitsGathered(s) ==
    /\ pc[s] \in TurnStates
    /\ pc' = [pc EXCEPT ![s] = "idle"]
    /\ messages' = IF pc[s] = "sources" THEN messages
                   ELSE SetMessages(s, Extend(messages[s], run[s].log))
    /\ run' = [run EXCEPT ![s] = NoRun]
    /\ last_retrieval' = [last_retrieval EXCEPT ![s] = NoRetrieval]
    /\ display' = [display EXCEPT ![s] = [status |-> "cancelled", source_urls |-> {}]]
    /\ UNCHANGED <<cli, widgets, keys, agent_deps, trigger, user_input,
                   full_response, turns, selects, tool_calls>>

\* The script run is stopped during a turn (the user navigates away or
\* touches a widget): the generator is closed where it stands, line 75 is
\* not reached from there, and the text streamed so far stays on the page.
Cancel(s) ==
    /\ pc[s] \in TurnStates
    /\ pc' = [pc EXCEPT ![s] = "idle"]
    /\ run' = [run EXCEPT ![s] = NoRun]
    /\ last_retrieval' = [last_retrieval EXCEPT ![s] = NoRetrieval]
    /\ display' = [display EXCEPT ![s] = [status |-> "cancelled", source_urls |-> {}]]
    /\ UNCHANGED <<cli, widgets, keys, messages, agent_deps, trigger, user_input,
                   full_response, turns, selects, tool_calls>>

\* ------------------------------------------------------------ specification
\* The steps of session s, the user's texts, the model's tool-call
\* arguments and the model's answers drawn from the given sets.
SessionNextOn(s, texts, injected, answers) ==
    \/ \E c \in Collections : SelectCollection(s, c)
    \/ \E n \in NResultsChoices : SelectNResults(s, n)
    \/ \E t \in Temperatures : SelectTemperature(s, t)
    \/ \E q \in texts : SubmitInput(s, q)
    \/ ResetAndRerun(s)
    \/ RunToChatInput(s)
    \/ StartTurn(s)
    \/ \E q \in texts, n \in injected : RequestTool(s, q, n)
    \/ Retrieve(s)
    \/ RetrieveFails(s)
    \/ \E answer \in answers : BeginResponse(s, answer)
    \/ StreamDelta(s)
    \/ LLMError(s)
    \/ Commit(s)
    \/ DisplaySources(s)
    \/ DisplaySourcesFails(s)
    \/ Cancel(s)

SessionNext(s) == SessionNextOn(s, Texts, InjectedNResults, Answers)

\* All sessions, their script runs interleaved; every user types the same
\* text and the model gives the same answer, so that the interleavings and
\* the selections make up the state space.
Next == \E s \in Sessions : SessionNextOn(s, {"q1"}, {0}, {<< <<"x">>, <<"y">> >>})

Spec == Init /\ [][Next]_vars

\* One user: the other sessions stay as they were loaded.
OneSession == "s1"

SessionSpec == Init /\ [][SessionNext(OneSession)]_vars

\* --------------------------------------------- the command line (rag_agent.py)
\* The fields of the dataclass RAGDeps; none has a default.
RAGDepsFields == {"chroma_client", "collection_name", "embedding_model", "n_results"}

\* The generated __init__ of the dataclass, called with keyword arguments:
\* a missing or an unknown field raises TypeError.
NewRAGDeps(kwargs) ==
    IF DOMAIN kwargs = RAGDepsFields
    THEN [ok |-> TRUE,
          deps |-> RAGDeps(kwargs.chroma_client, kwargs.collection_name,
                           kwargs.embedding_model, kwargs.n_results)]
    ELSE [ok |-> FALSE, deps |-> NoDeps]

\* The keyword arguments run_rag_agent gives RAGDeps ("Create dependencies").
RunRagAgentKwargs(args) ==
    [chroma_client |-> args.db_directory,
     collection_name |-> args.collection_name,
     embedding_model |-> args.embedding_model]

\* --embedding-model values given on the command line.
EmbeddingModels == {"all-MiniLM-L6-v2", "all-mpnet-base-v2"}

\* main(): the arguments are parsed and run_rag_agent is called with them.
CliMain(question, collection_name, embedding_model, n_results) ==
    /\ cli.pc = "shell"
    /\ cli' = [cli EXCEPT
                !.pc = "called",
                !.args = [question |-> question,
                          collection_name |-> collection_name,
                          db_directory |-> "./chroma_db",
                          embedding_model |-> embedding_model,
                          n_results |-> n_results]]
    /\ UNCHANGED session_vars

\* run_rag_agent: the deps are created, then agent.run starts with them.
\* An exception of the constructor leaves run_rag_agent and main().
RunRagAgent ==
    /\ cli.pc = "called"
    /\ LET created == NewRAGDeps(RunRagAgentKwargs(cli.args))
       IN  cli' = IF created.ok
                  THEN [cli EXCEPT !.pc = "agent-run", !.deps = created.deps]
                  ELSE [cli EXCEPT !.pc = "TypeError"]
    /\ UNCHANGED session_vars

CliNext ==
    \/ \E question \in Texts, collection_name \in Collections,
          embedding_model \in EmbeddingModels, n_results \in 1..MaxCliNResults :
            CliMain(question, collection_name, embedding_model, n_results)
    \/ RunRagAgent

CliSpec == Init /\ [][CliNext]_vars


\* =================================================================== claims
\* The selection of the session differs from its installed agent_deps.
SelectionDiffers(s) ==
    \/ agent_deps[s].collection_name # widgets[s].collection
    \/ agent_deps[s].n_results # widgets[s].n_results

\* A step of the script of session s from its first line.
ScriptStep(s) == ResetAndRerun(s) \/ RunToChatInput(s) \/ StartTurn(s)

\* C1: a script run whose selected collection or result count differs from
\* the installed agent_deps leaves the history empty; a script run started
\* by a change of the temperature alone leaves the history as it was.
C1_ResetOnSelectionNotTemperature ==
    [][\A s \in Sessions :
        ScriptStep(s) =>
            /\ SelectionDiffers(s) => messages'[s] = <<>>
            /\ trigger[s] = "temperature" =>
                    /\ messages'[s] = messages[s]
                    /\ agent_deps'[s] = agent_deps[s]]_vars

\* C1 witness: after a reset by a changed result count and a committed turn,
\* a temperature-only run has ended with the history still there.
C1_Witness ==
    \E s \in Sessions :
        /\ pc[s] = "idle"
        /\ trigger[s] = "temperature"
        /\ agent_deps[s].n_results = MinNResults
        /\ messages[s] # <<>>

ToolLoopCap == 1

\* C3: within one turn the number of retrieve tool-call iterations never
\* exceeds the cap, and a turn in which the model asked for more than the
\* cap completes with a recorded ToolLoopExceeded note.
C3_ToolLoopCapped ==
    \A s \in Sessions :
        /\ run[s].iterations <= ToolLoopCap
        /\ (pc[s] = "sources" /\ run[s].iterations >= ToolLoopCap) =>
                \E i \in 1..Len(messages[s]) :
                    messages[s][i].parts[1].part_kind = "ToolLoopExceeded"

\* The turn of session s has reached Complete: its stream was exhausted and
\* line 75 has run.
TurnComplete(s) == run[s].active /\ pc[s] \in {"sources", "idle"}

\* The messages the history holds beyond the history the run started with.
Appended(s) ==
    SubSeq(messages[s], Len(run[s].message_history) + 1, Len(messages[s]))

\* m is the request that carries the user prompt of the turn of s.
IsUserPrompt(m, s) ==
    /\ m.kind = "request"
    /\ m.parts[Len(m.parts)] = Part("user-prompt", <<user_input[s]>>)

\* call, return are a tool call and the tool result of that call.
IsToolPair(call, return, s) ==
    /\ call.kind = "response"
    /\ Len(call.parts) = 1
    /\ call.parts[1].part_kind = "tool-call"
    /\ return = ModelRequest(<<Part("tool-return",
            FormatResultsAsContext(
                QueryCollection(agent_deps[s].collection_name,
                                call.parts[1].content[1],
                                agent_deps[s].n_results)))>>)

\* C4: a turn changes the history exactly once, when it reaches Complete:
\* until then the history is the one the turn started with, and from then
\* on it is that history followed by the user prompt, each tool call
\* followed by its tool result, and the final assistant text, in this order.
C4_CommitOnceInOrder ==
    \A s \in Sessions :
        run[s].active =>
            /\ Len(messages[s]) >= Len(run[s].message_history)
            /\ SubSeq(messages[s], 1, Len(run[s].message_history))
                    = run[s].message_history
            /\ ~TurnComplete(s) => messages[s] = run[s].message_history
            /\ TurnComplete(s) =>
                LET new == Appended(s)
                IN  /\ Len(new) = 2 * run[s].iterations + 2
                    /\ IsUserPrompt(new[1], s)
                    /\ \A i \in 1..run[s].iterations :
                            IsToolPair(new[2 * i], new[2 * i + 1], s)
                    /\ new[Len(new)].kind = "response"
                    /\ Len(new[Len(new)].parts) = 1
                    /\ new[Len(new)].parts[1].part_kind = "text"

\* C4 witness: a turn with a tool call has completed on a history that was
\* not empty.
C4_Witness ==
    \E s \in Sessions :
        /\ TurnComplete(s)
        /\ run[s].message_history # <<>>
        /\ run[s].iterations >= 1

\* C5: after the language model errored in a turn, the turn is not in the
\* history as a successful turn and the history ends with a failure marker.
C5_FailureMarkerAppended ==
    \A s \in Sessions :
        display[s].status = "AgentUnavailable" =>
            /\ messages[s] # <<>>
            /\ messages[s][Len(messages[s])].parts[1].part_kind = "failure-marker"

\* C6: the step that cancels a turn leaves the history either as it was
\* when the turn started or extended by all the new messages of the turn.
C6_CancelAllOrNothing ==
    [][\A s \in Sessions :
        (pc[s] \in TurnStates /\ pc'[s] = "idle" /\ display'[s].status = "cancelled") =>
            \/ messages'[s] = run[s].message_history
            \/ /\ pc[s] = "sources"
               /\ messages'[s] = run[s].message_history \o NewMessages(run[s])]_vars

\* C6 witness: a turn on a non-empty history was cancelled between two
\* streamed deltas.
C6_Witness ==
    \E s \in Sessions :
        /\ display[s].status = "cancelled"
        /\ full_response[s] = <<"x">>
        /\ messages[s] # <<>>

\* The concatenation of a sequence of deltas.
RECURSIVE Concatenation(_)
Concatenation(deltas) ==
    IF deltas = <<>> THEN <<>> ELSE Head(deltas) \o Concatenation(Tail(deltas))

\* C7: while a turn streams, the text shown is the concatenation of the
\* deltas delivered so far, each once and in the order the model emitted
\* them; once the turn is complete the text shown is the whole answer and
\* is the assistant text at the end of the history.
C7_DeltasEqualCommittedText ==
    \A s \in Sessions :
        /\ (run[s].active /\ pc[s] = "streaming") =>
                full_response[s] \o Concatenation(run[s].pending)
                    = Concatenation(run[s].answer)
        /\ TurnComplete(s) =>
                /\ full_response[s] = Concatenation(run[s].answer)
                /\ messages[s][Len(messages[s])]
                        = ModelResponse(<<Part("text", full_response[s])>>)

\* C7 witness: a turn whose answer came in two different deltas is complete.
C7_Witness ==
    \E s \in Sessions :
        /\ TurnComplete(s)
        /\ Len(run[s].answer) = 2
        /\ run[s].answer[1] # run[s].answer[2]


\* Sessions s and t have the same collection and result count selected.
SameSelection(s, t) ==
    /\ widgets[s].collection = widgets[t].collection
    /\ widgets[s].n_results = widgets[t].n_results

\* C8: the two runs are two sessions whose selections agree except for the
\* temperature.  The installed agent_deps have no temperature field and are
\* equal, and for the same query text the retrieve tool obtains the same
\* result set and the display query shows the same sources.
C8_TemperatureIndependent ==
    \A s, t \in Sessions :
        /\ "temperature" \notin DOMAIN agent_deps[s]
        /\ (SameSelection(s, t) /\ pc[s] # "script" /\ pc[t] # "script") =>
                agent_deps[s] = agent_deps[t]
        /\ ( /\ SameSelection(s, t)
             /\ last_retrieval[s].ran /\ last_retrieval[t].ran
             /\ last_retrieval[s].query_text = last_retrieval[t].query_text ) =>
                last_retrieval[s].results = last_retrieval[t].results
        /\ ( /\ SameSelection(s, t)
             /\ display[s].status = "sources" /\ display[t].status = "sources"
             /\ user_input[s] = user_input[t] ) =>
                display[s].source_urls = display[t].source_urls

\* C8 witness: two sessions with the same collection and result count and
\* different temperatures have both run the tool with the same query.
C8_Witness ==
    \E s, t \in Sessions :
        /\ SameSelection(s, t)
        /\ run[s].active /\ run[t].active
        /\ run[s].temperature # run[t].temperature
        /\ last_retrieval[s].ran /\ last_retrieval[t].ran
        /\ last_retrieval[s].query_text = last_retrieval[t].query_text

\* C9: a step of session t (selection, reset, turn start, commit, failed or
\* cancelled turn) leaves the history and the agent_deps of every other
\* session as they were.
C9_SessionsIsolated ==
    [][\A t \in Sessions :
        SessionNext(t) =>
            \A s \in Sessions \ {t} :
                /\ messages'[s] = messages[s]
                /\ agent_deps'[s] = agent_deps[s]]_vars

\* C9 witness: one session holds a committed history while another one has
\* reset to a different selection and had a turn fail.
C9_Witness ==
    \E s, t \in Sessions :
        /\ s # t
        /\ messages[s] # <<>>
        /\ "agent_deps" \in keys[t]
        /\ agent_deps[t] # agent_deps[s]
        /\ display[t].status = "AgentUnavailable"

\* The distinct non-empty "source" metadata values of a result set.
DistinctSources(results) ==
    {p[2] : p \in {q \in UNION {results[i].meta : i \in 1..Len(results)} :
                        q[1] = "source" /\ q[2] # ""}}

\* C10 as stated: the sources shown after a completed turn are those of the
\* most recent retrieval of the retrieve tool in the turn, and none when the
\* tool ran no retrieval.
C10_SourcesOfToolRetrieval ==
    \A s \in Sessions :
        display[s].status = "sources" =>
            display[s].source_urls =
                IF last_retrieval[s].ran
                THEN DistinctSources(last_retrieval[s].results)
                ELSE {}

\* C10 amended: the sources shown after a completed turn are the distinct
\* non-empty "source" values of the result set of a query the UI runs
\* itself, with the text the user typed and the selected result count on
\* the session's collection, whether or not the tool retrieved anything.
C10_SourcesOfUserInputQuery ==
    \A s \in Sessions :
        display[s].status = "sources" =>
            /\ TurnComplete(s)
            /\ display[s].source_urls =
                DistinctSources(QueryCollection(agent_deps[s].collection_name,
                                                user_input[s],
                                                agent_deps[s].n_results))

\* C10 witness: sources are shown after a turn in which the tool retrieved
\* with another query than the user's text, and they are not the sources of
\* what the tool retrieved.
C10_Witness ==
    \E s \in Sessions :
        /\ display[s].status = "sources"
        /\ last_retrieval[s].ran
        /\ last_retrieval[s].query_text # user_input[s]
        /\ display[s].source_urls # DistinctSources(last_retrieval[s].results)


\* The step of session s in which a failure ends the tool call or the
\* display-sources block the script run was in.
FailureStep(s) ==
    /\ pc[s] \in {"tool", "sources"}
    /\ display'[s] # display[s]
    /\ display'[s].status \in {"RetrievalFailure", "AgentUnavailable", "sources-error"}

\* C11: a failure in the display-sources step or in the tool-call path of a
\* turn ends in an inline error message, not in an exception that ends the
\* script run; the agent_deps and the committed history stay as they were
\* and the session waits for the next input.
C11_FailuresShownInline ==
    [][\A s \in Sessions :
        FailureStep(s) =>
            /\ display'[s].status = "sources-error"
            /\ pc'[s] = "idle"
            /\ messages'[s] = messages[s]
            /\ agent_deps'[s] = agent_deps[s]]_vars


\* C13: at the step that starts a turn the installed agent_deps carry the
\* selected collection and the selected result count and are the deps the
\* run gets; and every step that changes the installed agent_deps installs
\* a bundle whose two fields both are the current selection, so no state
\* holds a bundle of which only one field follows a new selection.
C13_DepsMatchSelectionAtTurnStart ==
    [][\A s \in Sessions :
        /\ (pc[s] = "script" /\ pc'[s] = "reasoning") =>
                /\ agent_deps[s].collection_name = widgets[s].collection
                /\ agent_deps[s].n_results = widgets[s].n_results
                /\ run'[s].deps = agent_deps[s]
                /\ agent_deps'[s] = agent_deps[s]
        /\ agent_deps'[s] # agent_deps[s] =>
                /\ agent_deps'[s].collection_name = widgets'[s].collection
                /\ agent_deps'[s].n_results = widgets'[s].n_results]_vars

\* C13 witness: a turn is running after both the collection and the result
\* count were changed from their defaults.
C13_Witness ==
    \E s \in Sessions :
        /\ run[s].active
        /\ pc[s] = "reasoning"
        /\ run[s].deps.collection_name # available_collections[1]
        /\ run[s].deps.n_results # DefaultNResults


\* C14: the script run that st.rerun() starts after a reset finds nothing
\* to reset: its reset branch is not enabled, it carries no chat input and
\* its one possible step ends at the chat input; a reset is therefore never
\* followed by a second one without a new selection.
C14_RerunStabilises ==
    \A s \in Sessions :
        (pc[s] = "script" /\ trigger[s] = "rerun") =>
            /\ "agent_deps" \in keys[s]
            /\ messages[s] = <<>>
            /\ user_input[s] = ""
            /\ ~ENABLED ResetAndRerun(s)
            /\ ~ENABLED StartTurn(s)
            /\ ENABLED RunToChatInput(s)

\* C14 witness: after a changed result count, the reset and its rerun, the
\* session waits at the chat input.
C14_Witness ==
    \E s \in Sessions :
        /\ pc[s] = "idle"
        /\ trigger[s] = "rerun"
        /\ selects >= 1
        /\ agent_deps[s].n_results = MinNResults
        /\ widgets[s].n_results = MinNResults


\* C12: once run_rag_agent was called with n_results >= 1 and has got past
\* creating its deps, the bundle has all four fields, its result count is
\* the given n_results and the agent run has started.
C12_CliDepsCarryNResults ==
    (cli.pc \notin {"shell", "called"} /\ cli.args.n_results >= 1) =>
        /\ cli.pc = "agent-run"
        /\ DOMAIN cli.deps = RAGDepsFields
        /\ cli.deps.collection_name = cli.args.collection_name
        /\ cli.deps.embedding_model = cli.args.embedding_model
        /\ cli.deps.n_results = cli.args.n_results

====
